---- MODULE Spec2Model ----
(***************************************************************************)
(* Model of the Lucia conversation entity (conversation.py) and of its     *)
(* ConversationTracker (conversation_tracker.py).                          *)
(*                                                                         *)
(*   TrackerSpec  the ConversationTracker driven through its public        *)
(*                methods get / store / remove, as its unit tests do.      *)
(*   Spec         the conversation entity: turns that may overlap at the   *)
(*                network await.                                           *)
(*   SeqSpec      the conversation entity with one turn at a time.         *)
(*   TaskSpec     SeqSpec with the history of the finished task ids.       *)
(***************************************************************************)
EXTENDS Integers, Sequences, FiniteSets, TLC

\* ---------------------------------------------------------------- bounds
TickStep == 150          \* amount by which one clock step advances time.monotonic()
MaxTime == 300           \* the clock stops advancing here
MaxUuid == 2             \* number of uuid4 values that can be generated

\* ------------------------------------------------------ program constants
BridgeTtl == 300         \* ConversationTracker(ttl_seconds=300.0)
HttpOk == 200            \* response.status_code != 200

\* Python None; no identifier of the model is equal to it.
NONE == "<None>"

\* Optional[TrackedConversation]: the empty set is None, {x} is the object x.
Absent == {}
Some(x) == {x}
TheOne(s) == CHOOSE x \in s : TRUE

\* The empty dict.
EmptyDict == [k \in {} |-> NONE]

\* ------------------------------------------------------------- input sets
TrackerKeys == {"conv-1", "conv-2"}
TrackerContexts == {"ctx-a", "ctx-b"}
TrackerTasks == {NONE, "t1"}
TtlValues == {0, TickStep, BridgeTtl}

VARIABLES
    entries,        \* ConversationTracker._entries: dict key -> TrackedConversation
    ttl,            \* ConversationTracker._ttl
    now,            \* time.monotonic()
    lastOp,         \* the tracker method called last: its arguments, the time of the
                    \* call, its return value and the entry the key had before it
    stored,         \* history: per key, the arguments and time of the latest store,
                    \* and the time of the first store, since the key was last removed
    turns,          \* per slot, the locals of the _async_handle_message call in flight
    nextUuid,       \* number of uuid4 values generated so far
    last,           \* the call of _async_handle_message that ended last: what it
                    \* received, sent and returned
    written,        \* history: per conversation id, the reply and time of the latest
                    \* tracker store made by a turn
    finished,       \* history: the pairs <<conversation id, task id>> for which a Task
                    \* reply in a state other than working / input-required was stored
    reissued        \* history: the agent reported working / input-required for a
                    \* task id it had reported finished before

trackerVars == <<entries, ttl, now>>
harnessVars == <<lastOp, stored>>
bridgeVars == <<turns, nextUuid, last, written, finished, reissued>>
vars == <<entries, ttl, now, lastOp, stored, turns, nextUuid, last, written, finished, reissued>>

\* ===================================================== ConversationTracker

TrackedConversation(context_id, task_id, expires_at) ==
    [context_id |-> context_id, task_id |-> task_id, expires_at |-> expires_at]

Restrict(e, keys) == [k \in keys |-> e[k]]

\* the mutant keeps the entries that expire exactly now
prune_expired_late(e, t) ==
    Restrict(e, {k \in DOMAIN e : ~(e[k].expires_at < t)})

\* the mutant prunes nothing
prune_expired_never(e, t) == e

\* the mutant prunes every entry but the newest
prune_expired_eager(e, t) ==
    Restrict(e, {k \in DOMAIN e : e[k].expires_at > t
                                  /\ \A j \in DOMAIN e : e[j].expires_at <= e[k].expires_at})

\* _prune_expired: delete every entry with expires_at <= now
prune_expired(e, t) ==
    Restrict(e, {k \in DOMAIN e : ~(e[k].expires_at <= t)})

\* the mutant looks the key up first and prunes afterwards
get_then_prune(e, t, conversation_id) ==
    [entries |-> prune_expired(e, t),
     ret |-> IF conversation_id \in DOMAIN e
             THEN Some(e[conversation_id]) ELSE Absent]

\* get: prune, then look the key up. Gives the dict after the call and the
\* returned Optional[TrackedConversation].
get(e, t, conversation_id) ==
    LET pruned == prune_expired(e, t)
    IN  [entries |-> pruned,
         ret |-> IF conversation_id \in DOMAIN pruned
                 THEN Some(pruned[conversation_id]) ELSE Absent]

\* the mutant lets the entry live through the instant at which ttl has elapsed
store_through_ttl(e, t, ttl_seconds, conversation_id, context_id, task_id) ==
    [k \in DOMAIN e \cup {conversation_id} |->
        IF k = conversation_id
        THEN TrackedConversation(context_id, task_id, t + ttl_seconds + 1)
        ELSE e[k]]

\* the mutant keeps one session only: the store drops every other entry
store_single(e, t, ttl_seconds, conversation_id, context_id, task_id) ==
    [k \in {conversation_id} |-> TrackedConversation(context_id, task_id, t + ttl_seconds)]

\* the mutant keeps an entry that is already there (setdefault)
store_first_wins(e, t, ttl_seconds, conversation_id, context_id, task_id) ==
    [k \in DOMAIN e \cup {conversation_id} |->
        IF k = conversation_id /\ k \notin DOMAIN e
        THEN TrackedConversation(context_id, task_id, t + ttl_seconds)
        ELSE e[k]]

\* the mutant keeps the task id of the entry it replaces
store_merge(e, t, ttl_seconds, conversation_id, context_id, task_id) ==
    [k \in DOMAIN e \cup {conversation_id} |->
        IF k = conversation_id
        THEN TrackedConversation(
                 context_id,
                 IF task_id = NONE /\ k \in DOMAIN e THEN e[k].task_id ELSE task_id,
                 t + ttl_seconds)
        ELSE e[k]]

\* the mutant keeps the expiry of the entry it replaces
store_keep_expiry(e, t, ttl_seconds, conversation_id, context_id, task_id) ==
    [k \in DOMAIN e \cup {conversation_id} |->
        IF k = conversation_id
        THEN TrackedConversation(
                 context_id, task_id,
                 IF k \in DOMAIN e THEN e[k].expires_at ELSE t + ttl_seconds)
        ELSE e[k]]

\* store: replace the entry of the key; no prune
store(e, t, ttl_seconds, conversation_id, context_id, task_id) ==
    [k \in DOMAIN e \cup {conversation_id} |->
        IF k = conversation_id
        THEN TrackedConversation(context_id, task_id, t + ttl_seconds)
        ELSE e[k]]

\* the mutant deletes with `del self._entries[conversation_id]`: KeyError when
\* the key has no entry
remove_del(e, conversation_id) ==
    [entries |-> Restrict(e, DOMAIN e \ {conversation_id}),
     raised |-> conversation_id \notin DOMAIN e]

\* remove: _entries.pop(conversation_id, None); the default makes pop return
\* None instead of raising KeyError. Gives the dict after the call and whether
\* the call raised.
remove(e, conversation_id) ==
    [entries |-> Restrict(e, DOMAIN e \ {conversation_id}), raised |-> FALSE]

\* ------------------------------------------------ history of the stores
NeverStored == [context_id |-> NONE, task_id |-> NONE, at |-> -1, first |-> -1]

RecordStore(s, k, c, task, t) ==
    [s EXCEPT ![k] = [context_id |-> c, task_id |-> task, at |-> t,
                      first |-> IF s[k].at = -1 THEN t ELSE s[k].first]]

NoOp == [op |-> "none", key |-> NONE, context_id |-> NONE, task_id |-> NONE,
         at |-> 0, ret |-> Absent, before |-> Absent, raised |-> FALSE]

\* ============================================== the tracker's unit harness

TrackerInit ==
    /\ entries = EmptyDict
    /\ ttl \in TtlValues
    /\ now = 0
    /\ lastOp = NoOp
    /\ stored = [k \in TrackerKeys |-> NeverStored]
    /\ turns = [t \in {} |-> NONE]
    /\ nextUuid = 0
    /\ last = 0
    /\ written = [k \in {} |-> NONE]
    /\ finished = {}
    /\ reissued = FALSE

\* time.monotonic() advances (time.sleep in the tests)
Tick ==
    /\ now + TickStep <= MaxTime
    /\ now' = now + TickStep
    /\ UNCHANGED <<entries, ttl, lastOp, stored, bridgeVars>>

CallGet(k) ==
    LET r == get(entries, now, k)
    IN  /\ entries' = r.entries
        /\ lastOp' = [NoOp EXCEPT !.op = "get", !.key = k, !.at = now, !.ret = r.ret]
        /\ UNCHANGED <<ttl, now, stored, bridgeVars>>

CallStore(k, c, task) ==
    /\ entries' = store(entries, now, ttl, k, c, task)
    /\ lastOp' = [NoOp EXCEPT !.op = "store", !.key = k, !.context_id = c,
                              !.task_id = task, !.at = now,
                              !.before = IF k \in DOMAIN entries
                                         THEN Some(entries[k]) ELSE Absent]
    /\ stored' = RecordStore(stored, k, c, task, now)
    /\ UNCHANGED <<ttl, now, bridgeVars>>

CallRemove(k) ==
    /\ \E r \in {remove(entries, k)} :
           /\ entries' = r.entries
           /\ lastOp' = [NoOp EXCEPT !.op = "remove", !.key = k, !.at = now,
                                     !.raised = r.raised,
                                     !.before = IF k \in DOMAIN entries
                                                THEN Some(entries[k]) ELSE Absent]
    /\ stored' = [stored EXCEPT ![k] = NeverStored]
    /\ UNCHANGED <<ttl, now, bridgeVars>>

TrackerNext ==
    \/ Tick
    \/ \E k \in TrackerKeys : CallGet(k)
    \/ \E k \in TrackerKeys, c \in TrackerContexts, task \in TrackerTasks :
           CallStore(k, c, task)
    \/ \E k \in TrackerKeys : CallRemove(k)

TrackerSpec == TrackerInit /\ [][TrackerNext]_vars

\* ======================================================= conversation.py

MaxSlots == 2            \* number of calls of _async_handle_message that can overlap

Slots == 1 .. MaxSlots

\* uuid.uuid4(): the n-th value generated; all distinct
UuidOf == <<"uuid-1", "uuid-2", "uuid-3", "uuid-4", "uuid-5", "uuid-6">>
uuid4(n) == UuidOf[n]

\* Python truthiness of an Optional[str], and the `or` of two of them
Truthy(x) == x # NONE /\ x # ""
Or(a, b) == IF Truthy(a) THEN a ELSE b

\* --------------------------------------------------------------- inputs
PlatformHandles == {"h1"}
NoHandles == {NONE}
UserTexts == {"lights on"}
RenderOutcomes == {"ok", "TemplateError", "Exception"}

RenderedPrompt == "HOME ASSISTANT CONTEXT"
FallbackPrompt ==
    "You are a Home Assistant smart home assistant. Help the user control their devices and automations."
NotConfiguredSpeech ==
    "I'm sorry, but I'm not properly configured. Please check the integration settings."
IncompleteSpeech == "Agent configuration is incomplete."
NoResponseSpeech == "I received your message but didn't generate a response."
UnknownError == "Unknown error"

\* the reply of the agent, as httpx and response.json() present it
RemoteStates == {NONE, "working", "input-required", "completed", "failed"}
RemoteTaskIds == {NONE, "", "T1"}
RemoteContextIds == {NONE, "", "C1"}
TextPart(s) == [kind |-> "text", text |-> s]
OtherPart == [kind |-> "data", text |-> "x"]
SomeParts == <<TextPart("Hello "), OtherPart, TextPart("world")>>

NoResultObject ==
    [is_dict |-> FALSE, has_status |-> FALSE, status_is_dict |-> FALSE, state |-> NONE,
     id |-> NONE, contextId |-> NONE, parts |-> <<>>]
TaskResult(state, id, contextId, parts) ==
    [is_dict |-> TRUE, has_status |-> TRUE, status_is_dict |-> TRUE, state |-> state,
     id |-> id, contextId |-> contextId, parts |-> parts]
MessageResult(contextId, parts) ==
    [is_dict |-> TRUE, has_status |-> FALSE, status_is_dict |-> FALSE, state |-> NONE,
     id |-> NONE, contextId |-> contextId, parts |-> parts]
TaskResults ==
    {TaskResult(s, i, "C1", SomeParts) : s \in RemoteStates, i \in RemoteTaskIds}
    \cup {TaskResult(s, i, c, SomeParts) :
              s \in {"working", "completed"}, i \in {NONE, "T1"}, c \in {NONE, ""}}
    \cup {TaskResult(s, "T1", "C1", <<>>) : s \in {"input-required", "completed"}}
MessageResults ==
    {MessageResult(c, SomeParts) : c \in RemoteContextIds}
    \cup {MessageResult("C1", p) : p \in {<<>>, <<OtherPart, TextPart("")>>}}
BadStatusResult == [NoResultObject EXCEPT !.is_dict = TRUE, !.has_status = TRUE]
AContinuingTask == TaskResult("working", "T1", "C1", SomeParts)

ErrorObjects ==
    {[is_dict |-> TRUE, message |-> "boom"], [is_dict |-> TRUE, message |-> NONE],
     [is_dict |-> FALSE, message |-> NONE]}

Response(raises, status_code, valid, error, result) ==
    [raises |-> raises, status_code |-> status_code, valid |-> valid,
     error |-> error, result |-> result]

Responses ==
    {Response(TRUE, 0, FALSE, Absent, Absent)}
    \cup {Response(FALSE, 500, TRUE, Absent, r) : r \in {Absent, Some(AContinuingTask)}}
    \cup {Response(FALSE, 201, TRUE, Absent, Some(AContinuingTask))}
    \cup {Response(FALSE, HttpOk, FALSE, Absent, Absent)}
    \cup {Response(FALSE, HttpOk, TRUE, Some(e), r) :
              e \in ErrorObjects, r \in {Absent, Some(AContinuingTask)}}
    \cup {Response(FALSE, HttpOk, TRUE, Absent, r) :
              r \in {Absent, Some(NoResultObject), Some(BadStatusResult)}}
    \cup {Response(FALSE, HttpOk, TRUE, Absent, Some(r)) :
              r \in TaskResults \cup MessageResults}

\* chat_log faults are tried on these responses only
ChatProbes ==
    {Response(FALSE, 500, TRUE, Absent, Absent),
     Response(FALSE, HttpOk, TRUE, Some([is_dict |-> TRUE, message |-> "boom"]), Absent),
     Response(FALSE, HttpOk, TRUE, Absent, Some(TaskResult("working", "T1", "C1", SomeParts))),
     Response(FALSE, HttpOk, TRUE, Absent, Some(TaskResult("completed", "T1", "C1", SomeParts))),
     Response(TRUE, 0, FALSE, Absent, Absent)}

ReplyInputs == (Responses \X {"none"}) \cup (ChatProbes \X {"once", "always"})

\* the configuration is looked up before the prompt is rendered
BeginInputs ==
    {<<"no_client_data", "ok">>, <<"no_agent_url", "ok">>, <<"no_httpx_client", "ok">>}
    \cup ({"ok"} \X RenderOutcomes)

\* ------------------------------------------------------ pure helpers

\* the mutant stops at the first text part
AccumulateText_first(parts) ==
    LET texts == SelectSeq(parts, LAMBDA p : p.kind = "text")
    IN  IF texts = <<>> THEN "" ELSE Or(Head(texts).text, "")

\* for part in parts: if part.get("kind") == "text": response_text += part.get("text", "")
RECURSIVE AccumulateText(_)
AccumulateText(parts) ==
    IF parts = <<>> THEN ""
    ELSE (IF Head(parts).kind = "text" THEN Or(Head(parts).text, "") ELSE "")
         \o AccumulateText(Tail(parts))

\* the mutant continues on input-required only
ContinueConversation_input_only(state) == state = "input-required"

\* the mutant continues on every state but completed
ContinueConversation_not_completed(state) == state # "completed"

\* continue_conversation: True for input-required and for working
ContinueConversation(state) ==
    IF state = "input-required" THEN TRUE
    ELSE IF state = "working" THEN TRUE
    ELSE FALSE

\* the mutant ignores the id of the reply
ResponseTaskId_sent(result_id, task_id) == task_id

\* response_task_id = a2a_result.get("id") or task_id
ResponseTaskId(result_id, task_id) == Or(result_id, task_id)

\* the mutant falls back only when the reply has no contextId or a null one
ResponseContextId_unless_null(result_context_id, context_id) ==
    IF result_context_id = NONE THEN context_id ELSE result_context_id

\* the mutant takes the context id of the reply, named or not
ResponseContextId_reply(result_context_id, context_id) == result_context_id

\* response_context_id = a2a_result.get("contextId") or context_id
ResponseContextId(result_context_id, context_id) == Or(result_context_id, context_id)

\* the mutant stores the task id whatever the state
StoredTaskId_always(response_task_id, continue_conversation) == response_task_id

\* task_id=response_task_id if continue_conversation else None
StoredTaskId(response_task_id, continue_conversation) ==
    IF continue_conversation THEN response_task_id ELSE NONE

\* the mutant returns no conversation id
ConversationResult_without_id(speech, conversation_id, continue_conversation) ==
    [speech |-> speech, conversation_id |-> NONE,
     continue_conversation |-> continue_conversation]

ConversationResult(speech, conversation_id, continue_conversation) ==
    [speech |-> speech, conversation_id |-> conversation_id,
     continue_conversation |-> continue_conversation]

\* the mutant does not look at the status
StatusOk_unchecked(status_code) == TRUE

\* the mutant accepts every 2xx status
StatusOk_2xx(status_code) == status_code \div 100 = HttpOk \div 100

\* not (response.status_code != 200)
StatusOk(status_code) == ~(status_code # HttpOk)

\* how the code classifies a response, in the order of its checks: the post
\* raised, the status is not 200, response.json() raised, the body has an
\* "error" key, result is a dict with a "status" key (Task), result is another
\* dict (Message), or there is no result dict
Classify(response) ==
    IF response.raises THEN "transport"
    ELSE IF response.status_code # HttpOk THEN "http"
    ELSE IF ~response.valid THEN "invalid"
    ELSE IF response.error # Absent THEN "error"
    ELSE IF response.result # Absent /\ TheOne(response.result).is_dict
    THEN IF TheOne(response.result).has_status THEN "task" ELSE "message"
    ELSE "none"

\* the mutant looks at the error only when the body has no result
HasError_unless_result(body) == body.error # Absent /\ body.result = Absent

\* "error" in result
HasError(body) == body.error # Absent

\* error_msg = result["error"].get("message", "Unknown error")
ErrorMessage(error) == IF error.message = NONE THEN UnknownError ELSE error.message

\* the mutant does not catch TemplateError
RenderPrompt_uncaught(render) ==
    [raised |-> render # "ok", system_prompt |-> RenderedPrompt]

\* system_prompt of lines 112-120: the rendered template, the fallback text on
\* TemplateError; any other exception of _render_template is not caught
RenderPrompt(render) ==
    [raised |-> render = "Exception",
     system_prompt |-> IF render = "TemplateError" THEN FallbackPrompt ELSE RenderedPrompt]

\* the mutant checks the url and the client only
ConfigFault_no_data_check(config) ==
    IF config = "no_agent_url" \/ config = "no_httpx_client"
    THEN Some(IncompleteSpeech) ELSE Absent

\* the two checks of lines 83-105: the speech of the fault, if there is one.
\* `not client_data` comes first, then `not agent_url or not httpx_client`.
ConfigFault(config) ==
    IF config = "no_client_data" THEN Some(NotConfiguredSpeech)
    ELSE IF config = "no_agent_url" \/ config = "no_httpx_client"
    THEN Some(IncompleteSpeech)
    ELSE Absent

\* the mutant generates the uuid once and uses it for every new context
NewContextId_fixed(conversation_id, n) == uuid4(1)

\* the mutant opens the context under the conversation id when there is one
NewContextId_from_handle(conversation_id, n) == Or(conversation_id, uuid4(n))

\* context_id = str(uuid.uuid4()) of line 131, for the n-th uuid generated; the
\* conversation id presented plays no part
NewContextId(conversation_id, n) == uuid4(n)

\* the mutant returns the flag the try block had computed when it failed
ExceptResult_keeps_flag(err, continue_conversation) ==
    ConversationResult("I encountered an error while processing your request: " \o err,
                       NONE, continue_conversation)

\* the mutant names the conversation after the context it sent
HaConversationId_context(conversation_id, context_id) == context_id

\* ha_conversation_id = user_input.conversation_id or context_id
HaConversationId(conversation_id, context_id) == Or(conversation_id, context_id)

\* the result of the except branch, lines 292-307; continue_conversation is the
\* value of that local variable when the exception was raised
ExceptResult(err, continue_conversation) ==
    ConversationResult("I encountered an error while processing your request: " \o err,
                       NONE, FALSE)

\* the mutant keeps the empty text
ResponseText_kept(response_text) == response_text

\* if not response_text: response_text = "I received your message but ..."
ResponseText(response_text) ==
    IF response_text = "" THEN NoResponseSpeech ELSE response_text

\* the mutant starts from no context id
InitialParse_no_context(context_id, task_id) ==
    [raised |-> FALSE, shape |-> "none", state |-> NONE,
     response_text |-> "", continue_conversation |-> FALSE,
     response_context_id |-> NONE, response_task_id |-> task_id]

\* the locals before the body is looked at: lines 218-221
InitialParse(context_id, task_id) ==
    [raised |-> FALSE, shape |-> "none", state |-> NONE,
     response_text |-> "", continue_conversation |-> FALSE,
     response_context_id |-> context_id, response_task_id |-> task_id]

\* the body of the reply, decoded: lines 217-260
ParseResult(body, context_id, task_id) ==
    LET flat == InitialParse(context_id, task_id)
        r == TheOne(body.result)
        parsed ==
            IF body.result # Absent /\ r.is_dict
            THEN IF r.has_status
                 THEN IF ~r.status_is_dict
                      THEN [flat EXCEPT !.raised = TRUE]
                      ELSE LET state == IF r.state = NONE THEN "completed" ELSE r.state
                           IN  [flat EXCEPT
                                   !.shape = "task",
                                   !.state = state,
                                   !.response_task_id = ResponseTaskId(r.id, task_id),
                                   !.response_context_id =
                                       ResponseContextId(r.contextId, context_id),
                                   !.response_text = AccumulateText(r.parts),
                                   !.continue_conversation = ContinueConversation(state)]
                 ELSE [flat EXCEPT
                          !.shape = "message",
                          !.response_context_id =
                              ResponseContextId(r.contextId, context_id),
                          !.response_text = AccumulateText(r.parts)]
            ELSE flat
    IN  [parsed EXCEPT !.response_text = ResponseText(parsed.response_text)]

\* the mutant writes the entry it found back, which restarts its ttl
ResolveTracked_touch(e, t, conversation_id) ==
    IF Truthy(conversation_id)
    THEN LET r == get(e, t, conversation_id)
         IN  IF r.ret = Absent THEN r
             ELSE [entries |-> store(r.entries, t, BridgeTtl, conversation_id,
                                     TheOne(r.ret).context_id, TheOne(r.ret).task_id),
                   ret |-> r.ret]
    ELSE [entries |-> e, ret |-> Absent]

\* the mutant resolves the session before it renders the prompt
TrackerWhenRenderRaises_resolved(e, t, conversation_id) ==
    IF Truthy(conversation_id) THEN get(e, t, conversation_id).entries ELSE e

\* the tracker's entries when _render_template raises at line 113: the lookup of
\* lines 122-125 has not run yet
TrackerWhenRenderRaises(e, t, conversation_id) == e

\* the mutant looks the key up without pruning
ResolveTracked_no_prune(e, t, conversation_id) ==
    IF Truthy(conversation_id)
    THEN [entries |-> e,
          ret |-> IF conversation_id \in DOMAIN e THEN Some(e[conversation_id]) ELSE Absent]
    ELSE [entries |-> e, ret |-> Absent]

\* tracked = self._tracker.get(conversation_id) if conversation_id else None
ResolveTracked(e, t, conversation_id) ==
    IF Truthy(conversation_id)
    THEN get(e, t, conversation_id)
    ELSE [entries |-> e, ret |-> Absent]

IdleTurn ==
    [pc |-> "Idle", conversation_id |-> NONE, text |-> NONE, system_prompt |-> NONE,
     context_id |-> NONE, task_id |-> NONE, ha_conversation_id |-> NONE,
     request |-> Absent, stages |-> <<>>, config |-> "ok", tracked |-> FALSE,
     stale |-> FALSE]

\* JSON-RPC request: lines 140-166
JsonRpcRequest(message_text, context_id, task_id) ==
    [method |-> "message/send", text |-> message_text,
     contextId |-> context_id, taskId |-> task_id]

\* what is kept of the call that ended last: how it ended, the conversation id
\* it worked under, the ids it sent, whether it stored, the
\* ConversationResult it returned (none when the exception went to the host)
\* the class of the response it got ("none" when it got none), the "error"
\* member of an error response, how chat_log behaved, the outcome of
\* _render_template when its exception ended the call, the state of the
\* configuration when that ended the call, the state a Task response
\* named (None when it named none), the stages the call went through, the
\* entry of its conversation id when the response arrived, and the "result"
\* member of a Task or Message response
NoLast ==
    [outcome |-> "none", ha_conversation_id |-> NONE, context_id |-> NONE,
     task_id |-> NONE, did_store |-> FALSE, result |-> Absent, reply |-> "none",
     error |-> Absent, chat |-> "none", render |-> "none", config |-> "ok",
     state |-> NONE, stages |-> <<>>, before |-> Absent, raw |-> Absent]

Ended(outcome, turn, result, did_store) ==
    [outcome |-> outcome, ha_conversation_id |-> turn.ha_conversation_id,
     context_id |-> turn.context_id, task_id |-> turn.task_id,
     did_store |-> did_store, result |-> result, reply |-> "none",
     error |-> Absent, chat |-> "none", render |-> "none", config |-> "ok",
     state |-> NONE, stages |-> <<>>, before |-> Absent, raw |-> Absent]

NoWritten == [k \in {} |-> NONE]

BridgeInit ==
    /\ entries = EmptyDict
    /\ ttl = BridgeTtl
    /\ now = 0
    /\ lastOp = NoOp
    /\ stored = [k \in TrackerKeys |-> NeverStored]
    /\ turns = [t \in Slots |-> IdleTurn]
    /\ nextUuid = 0
    /\ last = NoLast
    /\ written = NoWritten
    /\ finished = {}
    /\ reissued = FALSE

\* the conversation ids the platform can present: none, its own, or one under
\* which a turn stored and which that turn returned
Presentable == NoHandles \cup PlatformHandles \cup DOMAIN written

\* _async_handle_message up to the await of httpx_client.post: lines 81-172
BeginTurn(t, conversation_id, text, config, render) ==
    /\ turns[t].pc = "Idle"
    /\ conversation_id \in Presentable
    /\ IF ConfigFault(config) # Absent
       THEN /\ last' = [Ended("ErrorTerminal", IdleTurn,
                              Some(ConversationResult(
                                  TheOne(ConfigFault(config)), NONE, FALSE)),
                              FALSE)
                          EXCEPT !.config = config,
                                 !.stages = <<"Idle", "ErrorTerminal">>]
            /\ UNCHANGED <<entries, turns, nextUuid>>
       ELSE IF RenderPrompt(render).raised
       THEN /\ last' = [Ended("Raised", IdleTurn, Absent, FALSE)
                          EXCEPT !.render = render, !.stages = <<"Idle", "Rendering">>]
            /\ entries' = TrackerWhenRenderRaises(entries, now, conversation_id)
            /\ UNCHANGED <<turns, nextUuid>>
       ELSE \E tracked \in {ResolveTracked(entries, now, conversation_id)} :
            LET system_prompt == RenderPrompt(render).system_prompt
                fresh == tracked.ret = Absent
                context_id == IF fresh THEN NewContextId(conversation_id, nextUuid + 1)
                              ELSE TheOne(tracked.ret).context_id
                task_id == IF fresh THEN NONE ELSE TheOne(tracked.ret).task_id
                ha_conversation_id == HaConversationId(conversation_id, context_id)
                message_text == system_prompt \o "\n\nUser: " \o text
            IN  /\ fresh => nextUuid < MaxUuid
                /\ entries' = tracked.entries
                /\ nextUuid' = IF fresh THEN nextUuid + 1 ELSE nextUuid
                /\ turns' = [turns EXCEPT ![t] =
                       [pc |-> "Transmitting",
                        conversation_id |-> conversation_id,
                        text |-> text,
                        system_prompt |-> system_prompt,
                        context_id |-> context_id,
                        task_id |-> task_id,
                        ha_conversation_id |-> ha_conversation_id,
                        request |-> Some(JsonRpcRequest(message_text, context_id, task_id)),
                        stages |-> <<"Idle", "Rendering", "ResolvingSession",
                                     "Encoding", "Transmitting">>,
                        config |-> config,
                        tracked |-> ~fresh,
                        stale |-> FALSE]]
                /\ last' = NoLast
    /\ UNCHANGED <<ttl, now, harnessVars, written, finished, reissued>>

\* what the rest of _async_handle_message does with the response: lines 172-307.
\* chat is the behaviour of chat_log.async_add_assistant_content_without_tools:
\* "none" never raises, "once" raises on its first call, "always" on each.
\* parsed is ParseResult of the response.
HandleParsed(turn, response, chat, e, t, ttl_seconds, parsed) ==
    LET body == response
        except(err, did_store, e2, stages) ==
            \* except Exception as err: lines 289-307; the tracker was written
            \* (did_store) only after continue_conversation was computed
            IF chat = "always"
            THEN [outcome |-> "Raised", result |-> Absent, entries |-> e2,
                  did_store |-> did_store, stages |-> stages]
            ELSE [outcome |-> "ErrorTerminal",
                  result |-> Some(ExceptResult(
                      err, did_store /\ parsed.continue_conversation)),
                  entries |-> e2, did_store |-> did_store,
                  stages |-> stages \o <<"ErrorTerminal">>]
        early(speech, stages) ==
            \* the two early returns: lines 178-193 and 199-215
            IF chat # "none"
            THEN except("chat_log", FALSE, e, stages)
            ELSE [outcome |-> "ErrorTerminal",
                  result |-> Some(ConversationResult(speech, turn.ha_conversation_id, FALSE)),
                  entries |-> e, did_store |-> FALSE,
                  stages |-> stages \o <<"ErrorTerminal">>]
    IN  IF response.raises
        THEN except("transport", FALSE, e, turn.stages)
        ELSE IF ~StatusOk(response.status_code)
        THEN early("Agent returned HTTP " \o ToString(response.status_code), turn.stages)
        ELSE IF ~response.valid
        THEN except("json", FALSE, e, turn.stages \o <<"Decoding">>)
        ELSE IF HasError(body)
        THEN IF ~TheOne(body.error).is_dict
             THEN except("attribute", FALSE, e, turn.stages \o <<"Decoding">>)
             ELSE early("Agent error: " \o ErrorMessage(TheOne(body.error)),
                        turn.stages \o <<"Decoding">>)
        ELSE IF parsed.raised
        THEN except("attribute", FALSE, e, turn.stages \o <<"Decoding">>)
        ELSE LET e2 == store(e, t, ttl_seconds, turn.ha_conversation_id,
                             parsed.response_context_id,
                             StoredTaskId(parsed.response_task_id,
                                          parsed.continue_conversation))
                 stages == turn.stages \o <<"Decoding", "UpdatingSession">>
             IN  IF chat # "none"
                 THEN except("chat_log", TRUE, e2, stages)
                 ELSE [outcome |-> "Done",
                       result |-> Some(ConversationResult(
                           parsed.response_text, turn.ha_conversation_id,
                           parsed.continue_conversation)),
                       entries |-> e2, did_store |-> TRUE,
                       stages |-> stages \o <<"Done">>]

HandleResponse(turn, response, chat, e, t, ttl_seconds) ==
    TheOne({HandleParsed(turn, response, chat, e, t, ttl_seconds, parsed) :
                parsed \in {ParseResult(response, turn.context_id, turn.task_id)}})

FinishedTasks == {p[2] : p \in finished}

\* the reply is a Task in state working or input-required
ContinuingReply(response) ==
    /\ response.result # Absent
    /\ TheOne(response.result).is_dict
    /\ TheOne(response.result).has_status
    /\ TheOne(response.result).state \in {"working", "input-required"}

FinishedReply(response) ==
    /\ response.result # Absent
    /\ TheOne(response.result).is_dict
    /\ TheOne(response.result).has_status
    /\ TheOne(response.result).state \notin {"working", "input-required"}

\* the history kept of a store made by a turn: when, whether the reply was a
\* continuing Task, the context id the reply named (else the one sent) and,
\* for a continuing Task, the task id the reply named (else the one sent)
Writing(turn, response, at) ==
    LET r == IF response.result # Absent /\ TheOne(response.result).is_dict
             THEN TheOne(response.result) ELSE NoResultObject
    IN  [at |-> at, continuing |-> ContinuingReply(response),
         context_id |-> IF Truthy(r.contextId) THEN r.contextId ELSE turn.context_id,
         task_id |-> IF ~ContinuingReply(response) THEN NONE
                     ELSE IF Truthy(r.id) THEN r.id ELSE turn.task_id]

\* the response arrives and the call runs to its end. A call still in flight on
\* the same conversation id is marked stale when this one stores: the entry it
\* resolved its session from has been replaced.
ReplyTurn(t, response, chat) ==
    /\ turns[t].pc = "Transmitting"
    /\ \E h \in {HandleResponse(turns[t], response, chat, entries, now, ttl)} :
       LET key == turns[t].ha_conversation_id
       IN  /\ entries' = h.entries
           /\ last' = [Ended(h.outcome, turns[t], h.result, h.did_store)
                           EXCEPT !.reply = Classify(response),
                                  !.error = IF Classify(response) = "error"
                                            THEN response.error ELSE Absent,
                                  !.chat = chat,
                                  !.stages = h.stages,
                                  !.before = IF key \in DOMAIN entries
                                             THEN Some(entries[key]) ELSE Absent,
                                  !.state = IF Classify(response) = "task"
                                            THEN TheOne(response.result).state
                                            ELSE NONE,
                                  !.raw = IF Classify(response) \in {"task", "message"}
                                          THEN response.result ELSE Absent]
           /\ written' = IF h.did_store
                         THEN [k \in DOMAIN written \cup {key} |->
                                  IF k = key THEN Writing(turns[t], response, now)
                                  ELSE written[k]]
                         ELSE written
    /\ turns' = [u \in Slots |->
                     IF u = t THEN IdleTurn
                     ELSE IF /\ last'.did_store
                             /\ turns[u].pc = "Transmitting"
                             /\ turns[u].ha_conversation_id = turns[t].ha_conversation_id
                     THEN [turns[u] EXCEPT !.stale = TRUE]
                     ELSE turns[u]]
    /\ UNCHANGED <<ttl, now, harnessVars, nextUuid>>

\* history of the task ids reported finished, kept by the specification TaskSpec
\* until the agent reports one of them as continuing again
TrackTasks(t, response, chat) ==
    LET r == TheOne(response.result)
        task == IF Truthy(r.id) THEN r.id ELSE turns[t].task_id
    IN  IF last'.did_store /\ ~reissued
        THEN IF ContinuingReply(response) /\ task \in FinishedTasks
             THEN reissued' = TRUE /\ finished' = {}
             ELSE /\ finished' = IF FinishedReply(response) /\ task # NONE
                                 THEN finished \cup {<<turns[t].ha_conversation_id, task>>}
                                 ELSE finished
                  /\ UNCHANGED reissued
        ELSE UNCHANGED <<finished, reissued>>

\* the host cancels the call at the await: CancelledError is not an Exception
CancelTurn(t) ==
    /\ turns[t].pc = "Transmitting"
    /\ last' = Ended("Cancelled", turns[t], Absent, FALSE)
    /\ turns' = [turns EXCEPT ![t] = IdleTurn]
    /\ UNCHANGED <<trackerVars, harnessVars, nextUuid, written, finished, reissued>>

NoneInFlight == \A t \in Slots : turns[t].pc = "Idle"

\* the platform starts a call; the call takes the first free slot
Begin ==
    \E t \in Slots, c \in NoHandles \cup PlatformHandles \cup {uuid4(n) : n \in 1 .. MaxUuid},
       x \in UserTexts, i \in BeginInputs :
        /\ \A u \in Slots : u < t => turns[u].pc # "Idle"
        /\ BeginTurn(t, c, x, i[1], i[2])

Reply ==
    \E t \in Slots, i \in ReplyInputs :
        ReplyTurn(t, i[1], i[2]) /\ UNCHANGED <<finished, reissued>>

TrackedReply ==
    \E t \in Slots, i \in ReplyInputs :
        ReplyTurn(t, i[1], i[2]) /\ TrackTasks(t, i[1], i[2])

Cancel == \E t \in Slots : CancelTurn(t)

Next == Tick \/ Begin \/ Reply \/ Cancel

Spec == BridgeInit /\ [][Next]_vars

SeqBegin == NoneInFlight /\ Begin

SeqNext == Tick \/ SeqBegin \/ Reply \/ Cancel

SeqSpec == BridgeInit /\ [][SeqNext]_vars

\* turns keep arriving, one at a time, and every request sent gets its answer;
\* the clock runs on to the end of the time modelled
FairSpec ==
    /\ BridgeInit
    /\ [][SeqNext]_vars
    /\ WF_vars(SeqBegin)
    /\ WF_vars(Reply)
    /\ WF_vars(Tick)

\* overlapping calls: the platform starts a second call while the first awaits
\* its response. The calls get through the configuration check and the
\* rendering, and chat_log takes what it is given.
RaceReplies ==
    {Response(TRUE, 0, FALSE, Absent, Absent)}
    \cup {Response(FALSE, HttpOk, TRUE, Absent, Some(r)) :
              r \in {TaskResult("working", "T1", "C1", SomeParts),
                     TaskResult("input-required", NONE, NONE, SomeParts),
                     TaskResult("completed", "T1", "C1", SomeParts),
                     MessageResult("", SomeParts)}}

RaceBegin ==
    \E t \in Slots, c \in NoHandles \cup PlatformHandles \cup {uuid4(n) : n \in 1 .. MaxUuid},
       x \in UserTexts :
        /\ \A u \in Slots : u < t => turns[u].pc # "Idle"
        /\ BeginTurn(t, c, x, "ok", "ok")

RaceReply ==
    \E t \in Slots, r \in RaceReplies :
        ReplyTurn(t, r, "none") /\ UNCHANGED <<finished, reissued>>

RaceNext == Tick \/ RaceBegin \/ RaceReply \/ Cancel

RaceSpec == BridgeInit /\ [][RaceNext]_vars

TaskNext == Tick \/ SeqBegin \/ TrackedReply \/ Cancel

TaskSpec == BridgeInit /\ [][TaskNext]_vars

\* ================================================== claims on the turns

Begins(t) == turns[t].pc = "Idle" /\ turns'[t].pc = "Transmitting"
Returns(t) == turns[t].pc = "Transmitting" /\ turns'[t].pc = "Idle"
SentTaskId(turn) == TheOne(turn.request).taskId
SentContextId(turn) == TheOne(turn.request).contextId

\* C1: a turn that ends in Done on a reply that is not a continuing Task leaves
\* the entry of its conversation id with task_id None, whatever the entry held
\* before; and a turn that presents a conversation id whose latest store came
\* from such a reply sends taskId null.
C1_FinishedReplyClearsTask ==
    [][\A t \in Slots :
        /\ (/\ Returns(t)
            /\ last'.outcome = "Done"
            /\ ~written'[turns[t].ha_conversation_id].continuing) =>
               /\ turns[t].ha_conversation_id \in DOMAIN entries'
               /\ entries'[turns[t].ha_conversation_id].task_id = NONE
        /\ (/\ Begins(t)
            /\ turns'[t].conversation_id \in DOMAIN written
            /\ ~written[turns'[t].conversation_id].continuing) =>
               SentTaskId(turns'[t]) = NONE]_vars

C1_Witness ==
    /\ last.outcome = "Done"
    /\ last.task_id # NONE
    /\ ~written[last.ha_conversation_id].continuing
    /\ entries[last.ha_conversation_id].task_id = NONE

C3_ContinuationSendsStoredIds ==
    [][\A t \in Slots :
        (/\ Begins(t)
         /\ turns'[t].conversation_id \in DOMAIN written
         /\ written[turns'[t].conversation_id].continuing
         /\ now < written[turns'[t].conversation_id].at + ttl) =>
            /\ SentContextId(turns'[t]) = written[turns'[t].conversation_id].context_id
            /\ SentTaskId(turns'[t]) = written[turns'[t].conversation_id].task_id]_vars

C3_Witness ==
    \E t \in Slots :
        /\ turns[t].pc = "Transmitting"
        /\ turns[t].conversation_id \in {uuid4(n) : n \in 1 .. MaxUuid}
        /\ SentTaskId(turns[t]) = "T1"
        /\ SentContextId(turns[t]) = "C1"
        /\ written[turns[t].conversation_id].at < now

\* C4: the taskId of a request is non-null only if, when the turn resolves its
\* session, the tracker holds an unexpired entry for the incoming conversation
\* id, and then it is that entry's task_id; without conversation id, with an
\* unknown one or with an expired entry the request carries taskId null.
C4_TaskIdOnlyFromLiveEntry ==
    [][\A t \in Slots :
        Begins(t) =>
            LET c == turns'[t].conversation_id
                live == c \in DOMAIN entries /\ entries[c].expires_at > now
            IN  /\ SentTaskId(turns'[t]) # NONE =>
                       live /\ SentTaskId(turns'[t]) = entries[c].task_id
                /\ ~live => SentTaskId(turns'[t]) = NONE]_vars

C4_Witness ==
    \E t \in Slots :
        /\ turns[t].pc = "Transmitting"
        /\ turns[t].conversation_id \in DOMAIN written
        /\ written[turns[t].conversation_id].continuing
        /\ written[turns[t].conversation_id].task_id # NONE
        /\ now >= written[turns[t].conversation_id].at + ttl
        /\ SentTaskId(turns[t]) = NONE

\* C5 as claimed: with one turn at a time and an agent that never reports
\* working or input-required for a task id it reported finished, no turn on
\* any conversation id sends a task id that was reported finished before.
C5_FinishedTaskNeverSent ==
    [][\A t \in Slots :
        (Begins(t) /\ ~reissued) => SentTaskId(turns'[t]) \notin FinishedTasks]_vars

\* C5 as amended: under the same conditions, no turn sends a task id that was
\* reported finished before in a turn on the same conversation id.
C5_FinishedTaskNeverSentOnSameId ==
    [][\A t \in Slots :
        (Begins(t) /\ ~reissued) =>
            <<turns'[t].ha_conversation_id, SentTaskId(turns'[t])>> \notin finished]_vars

C5_Witness ==
    \E t \in Slots :
        /\ turns[t].pc = "Transmitting"
        /\ ~reissued
        /\ \E p \in finished : p[1] = turns[t].conversation_id
        /\ turns[t].context_id = written[turns[t].conversation_id].context_id
        /\ now < written[turns[t].conversation_id].at + ttl
        /\ SentTaskId(turns[t]) = NONE

\* C12: no fault of any stage of a turn goes to the host: every call of
\* _async_handle_message that is not cancelled returns a ConversationResult.
C12_NoFaultPropagates ==
    last.outcome \notin {"none", "Cancelled"} => last.result # Absent

\* C13: every turn that ends in ErrorTerminal, whatever the fault, returns
\* continue_conversation False; continue_conversation True is returned only by
\* a turn that ends in Done.
C13_ErrorNeverContinues ==
    last.result # Absent =>
        /\ last.outcome \in {"Done", "ErrorTerminal"}
        /\ last.outcome = "ErrorTerminal" => ~TheOne(last.result).continue_conversation
        /\ TheOne(last.result).continue_conversation => last.outcome = "Done"

C13_Witness ==
    /\ last.outcome = "ErrorTerminal"
    /\ last.did_store
    /\ entries[last.ha_conversation_id].task_id # NONE
    /\ ~TheOne(last.result).continue_conversation

ThroughExcept(l) ==
    \/ l.outcome = "Raised"
    \/ l.outcome = "ErrorTerminal" /\ TheOne(l.result).conversation_id = NONE

\* C16: a turn in which an exception reaches the except branch, at any stage
\* after the request was sent, the stages after decoding included, leaves the
\* tracker's entries as they were.
C16_ExceptionLeavesTracker ==
    [][\A t \in Slots :
        (Returns(t) /\ ThroughExcept(last')) => entries' = entries]_vars

\* what a call makes of a response: how it ends, what it returns, whether it
\* stored and the tracker's entries after it
Effect(turn, response, chat) ==
    LET h == HandleResponse(turn, response, chat, entries, now, ttl)
    IN  [outcome |-> h.outcome, result |-> h.result, did_store |-> h.did_store,
         entries |-> h.entries]

\* the turn as it would be had the template rendered
AsRendered(turn) ==
    [turn EXCEPT !.system_prompt = RenderedPrompt,
                 !.request = Some(JsonRpcRequest(
                     RenderedPrompt \o "\n\nUser: " \o turn.text,
                     turn.context_id, turn.task_id))]

\* C17: a TemplateError of the prompt never ends the turn: the call goes on
\* with the fixed fallback prompt and sends the request, and what it makes of
\* every response (how it ends, its result, the tracker) is what a call whose
\* template rendered makes of it.
C17_TemplateErrorFallsBack ==
    /\ last.render # "TemplateError"
    /\ \A t \in Slots :
           (turns[t].pc = "Transmitting" /\ turns[t].system_prompt = FallbackPrompt) =>
               /\ TheOne(turns[t].request).text =
                      FallbackPrompt \o "\n\nUser: " \o turns[t].text
               /\ \A i \in ReplyInputs :
                      Effect(turns[t], i[1], i[2]) = Effect(AsRendered(turns[t]), i[1], i[2])

C17_Witness ==
    \E t \in Slots :
        /\ turns[t].pc = "Transmitting"
        /\ turns[t].system_prompt = FallbackPrompt
        /\ SentTaskId(turns[t]) # NONE
        /\ \E i \in ReplyInputs :
               /\ Effect(turns[t], i[1], i[2]).outcome = "Done"
               /\ TheOne(Effect(turns[t], i[1], i[2]).result).continue_conversation

ConfigFaults == {"no_client_data", "no_agent_url", "no_httpx_client"}

\* C18: a call made while the client data, the agent url or the http client is
\* missing ends at once with a fixed speech and continue_conversation False;
\* it posts no request and does not touch the tracker: no get, no prune, no
\* store.
C18_ConfigFaultEndsAtOnce ==
    [][/\ \A t \in Slots :
              turns'[t].pc = "Transmitting" => turns'[t].config \notin ConfigFaults
       /\ last'.config \in ConfigFaults =>
              /\ last'.outcome = "ErrorTerminal"
              /\ TheOne(last'.result).speech =
                     (IF last'.config = "no_client_data"
                      THEN NotConfiguredSpeech ELSE IncompleteSpeech)
              /\ ~TheOne(last'.result).continue_conversation
              /\ ~last'.did_store
              /\ turns' = turns
              /\ entries' = entries
              /\ written' = written
              /\ nextUuid' = nextUuid]_vars

C18_Witness ==
    /\ last.config \in ConfigFaults
    /\ last.outcome = "ErrorTerminal"
    /\ \E k \in DOMAIN entries : entries[k].expires_at <= now /\ entries[k].task_id # NONE

\* C19 as claimed: in every turn, neither the contextId nor the taskId of the
\* request is the conversation id that the platform presented or that the call
\* returns to the platform.
C19_HandleNeverSent ==
    [][\A t \in Slots :
        /\ (Begins(t) /\ turns'[t].conversation_id # NONE) =>
               /\ SentContextId(turns'[t]) # turns'[t].conversation_id
               /\ SentTaskId(turns'[t]) # turns'[t].conversation_id
        /\ (/\ Returns(t)
            /\ last'.result # Absent
            /\ TheOne(last'.result).conversation_id # NONE) =>
               /\ SentContextId(turns[t]) # TheOne(last'.result).conversation_id
               /\ SentTaskId(turns[t]) # TheOne(last'.result).conversation_id]_vars

\* C19 as amended: a conversation id that the platform made itself is never
\* sent: in a turn that presents one, neither the contextId nor the taskId of
\* the request is that id, which is also the id the call returns.
C19_PlatformHandleNeverSent ==
    [][\A t \in Slots :
        /\ (Begins(t) /\ turns'[t].conversation_id \in PlatformHandles) =>
               /\ SentContextId(turns'[t]) # turns'[t].conversation_id
               /\ SentTaskId(turns'[t]) # turns'[t].conversation_id
               /\ turns'[t].ha_conversation_id = turns'[t].conversation_id
        /\ (/\ Returns(t)
            /\ turns[t].conversation_id \in PlatformHandles
            /\ last'.result # Absent
            /\ TheOne(last'.result).conversation_id # NONE) =>
               /\ TheOne(last'.result).conversation_id = turns[t].conversation_id
               /\ SentContextId(turns[t]) # TheOne(last'.result).conversation_id
               /\ SentTaskId(turns[t]) # TheOne(last'.result).conversation_id]_vars

C19_Witness ==
    /\ last.outcome = "Done"
    /\ last.ha_conversation_id \in PlatformHandles
    /\ TheOne(last.result).conversation_id = last.ha_conversation_id
    /\ last.task_id = "T1"
    /\ last.context_id \in {uuid4(n) : n \in 1 .. MaxUuid}

\* C20: the result of a turn has continue_conversation True if and only if
\* the turn ended in Done on a Task reply (a result with a status) whose state
\* is working or input-required; it is False for completed, for any other
\* state, for a status without state, for every Message reply and for every
\* error reply.
C20_ContinueIffContinuingTask ==
    last.result # Absent =>
        (TheOne(last.result).continue_conversation <=>
            /\ last.outcome = "Done"
            /\ last.reply = "task"
            /\ last.state \in {"working", "input-required"})

C20_Witness ==
    /\ last.outcome = "Done"
    /\ last.reply = "task"
    /\ last.state = NONE
    /\ last.task_id # NONE
    /\ ~TheOne(last.result).continue_conversation

\* C21: the tracker holds for each conversation id the pair of the latest turn
\* on it that ended in Done: such a turn leaves the entry with the context id
\* and the task-id-if-continuing of its reply, expiring ttl later; a turn that
\* ends otherwise changes neither the pair nor the expiry of the entry.
C21_EntryIsLatestDone ==
    [][\A t \in Slots :
        Returns(t) =>
            LET h == turns[t].ha_conversation_id
            IN  IF last'.outcome = "Done"
                THEN /\ h \in DOMAIN entries'
                     /\ entries'[h] = TrackedConversation(
                            written'[h].context_id, written'[h].task_id, now + ttl)
                ELSE /\ (h \in DOMAIN entries') <=> (h \in DOMAIN entries)
                     /\ h \in DOMAIN entries => entries'[h] = entries[h]]_vars

\* C22: a turn whose await of the post is cancelled stores nothing. Up to the
\* await the call only looks its conversation id up: the tracker gains no
\* entry and every entry that has not expired stays as it is (the lookup drops
\* the expired ones); the cancellation itself leaves the tracker as it is.
C22_CancelledTurnStoresNothing ==
    [][\A t \in Slots :
        /\ Begins(t) =>
               /\ \A k \in DOMAIN entries' :
                      k \in DOMAIN entries /\ entries'[k] = entries[k]
               /\ \A k \in DOMAIN entries :
                      entries[k].expires_at > now => k \in DOMAIN entries'
               /\ written' = written
        /\ (Returns(t) /\ last'.outcome = "Cancelled") =>
               /\ ~last'.did_store
               /\ last'.result = Absent
               /\ entries' = entries
               /\ written' = written]_vars

C22_Witness ==
    /\ last.outcome = "Cancelled"
    /\ last.task_id # NONE
    /\ last.ha_conversation_id \in DOMAIN entries
    /\ entries[last.ha_conversation_id].task_id = last.task_id
    /\ entries[last.ha_conversation_id].context_id = last.context_id
    /\ entries[last.ha_conversation_id].expires_at < now + ttl

\* every conversation id the tracker of the bridge can hold
BridgeKeys == PlatformHandles \cup {uuid4(n) : n \in 1 .. MaxUuid}

\* the entry of k is in storage although its expires_at has passed
Expired(k) == k \in DOMAIN entries /\ entries[k].expires_at <= now

\* C23: as long as turns keep arriving, with or without conversation id, every
\* entry whose ttl has elapsed is eventually removed from storage (or stored
\* again).
C23_ExpiredEventuallyRemoved ==
    \A k \in BridgeKeys : Expired(k) ~> ~Expired(k)

IsPrefix(s, full) ==
    /\ Len(s) <= Len(full)
    /\ \A i \in 1 .. Len(s) : s[i] = full[i]

\* the stages of a call up to the one it failed in
BeforeError(stages) ==
    IF stages # <<>> /\ stages[Len(stages)] = "ErrorTerminal"
    THEN SubSeq(stages, 1, Len(stages) - 1) ELSE stages

ClaimedOrder ==
    <<"Idle", "ResolvingSession", "Rendering", "Encoding", "Transmitting",
      "Decoding", "UpdatingSession", "Done">>

CodeOrder ==
    <<"Idle", "Rendering", "ResolvingSession", "Encoding", "Transmitting",
      "Decoding", "UpdatingSession", "Done">>

\* C24 as claimed: the stages of every turn follow the order Idle,
\* ResolvingSession, Rendering, Encoding, Transmitting, Decoding,
\* UpdatingSession, Done: the lookup comes before the rendering of the prompt.
C24_StagesInClaimedOrder ==
    /\ IsPrefix(BeforeError(last.stages), ClaimedOrder)
    /\ \A t \in Slots : IsPrefix(turns[t].stages, ClaimedOrder)

\* C24 as amended: the stages of every turn follow the order Idle, Rendering,
\* ResolvingSession, Encoding, Transmitting, Decoding, UpdatingSession, Done.
\* The prompt is rendered before the lookup: when the rendering raises, the
\* tracker has not been looked up (nothing pruned). The store comes after
\* decoding and before the return: a turn stored exactly if it went through
\* UpdatingSession, and a turn that ends in Done did.
C24_StagesInCodeOrder ==
    [][/\ IsPrefix(BeforeError(last'.stages), CodeOrder)
       /\ \A t \in Slots : IsPrefix(turns'[t].stages, CodeOrder)
       /\ last'.render = "Exception" =>
              /\ last'.stages = <<"Idle", "Rendering">>
              /\ entries' = entries
       /\ \A t \in Slots :
              Begins(t) =>
                  turns'[t].stages[Len(turns'[t].stages)] = "Transmitting"
       /\ last'.did_store <=>
              \E i \in 1 .. Len(last'.stages) : last'.stages[i] = "UpdatingSession"
       /\ last'.outcome = "Done" => BeforeError(last'.stages) = CodeOrder]_vars

C24_Witness ==
    /\ last.outcome = "Raised"
    /\ last.render = "Exception"
    /\ last.stages = <<"Idle", "Rendering">>
    /\ \E k \in DOMAIN entries : entries[k].expires_at <= now

\* C25: two calls on the same conversation id that both resolved their session
\* from the tracker before either got its response (and before any other call
\* on that id stored) send the same context id
\* and task id; and whenever a call ends in Done, the entry of its
\* conversation id is exactly what that call wrote, so after both the entry is
\* that of the call whose store ran last, with nothing of the earlier store.
C25_LastWriteWins ==
    [][/\ \A t, u \in Slots :
              (/\ t # u
               /\ turns'[t].pc = "Transmitting" /\ turns'[u].pc = "Transmitting"
               /\ turns'[t].conversation_id # NONE
               /\ turns'[t].conversation_id = turns'[u].conversation_id
               /\ turns'[t].tracked /\ turns'[u].tracked
               /\ ~turns'[t].stale /\ ~turns'[u].stale) =>
                  /\ SentContextId(turns'[t]) = SentContextId(turns'[u])
                  /\ SentTaskId(turns'[t]) = SentTaskId(turns'[u])
       /\ \A t \in Slots :
              (Returns(t) /\ last'.outcome = "Done") =>
                  LET h == turns[t].ha_conversation_id
                  IN  /\ h \in DOMAIN entries'
                      /\ entries'[h] = TrackedConversation(
                             written'[h].context_id, written'[h].task_id, now + ttl)]_vars

\* the call that ended last had sent T1, found when it resolved its session;
\* when its response came another call had stored the entry without task id;
\* its own store put T1 back
C25_Witness ==
    /\ last.outcome = "Done"
    /\ last.task_id = "T1"
    /\ last.before # Absent
    /\ TheOne(last.before).task_id = NONE
    /\ TheOne(last.before).expires_at > now
    /\ entries[last.ha_conversation_id].task_id = "T1"
    /\ \A t \in Slots : turns[t].pc = "Idle"

\* every context id sent or stored so far: those generated, those the agent
\* can name, and those the tracker, the calls in flight and the last call hold
KnownContextIds ==
    {uuid4(n) : n \in 1 .. nextUuid}
    \cup (RemoteContextIds \ {NONE, ""})
    \cup {entries[k].context_id : k \in DOMAIN entries}
    \cup {written[k].context_id : k \in DOMAIN written}
    \cup {turns[t].context_id : t \in {u \in Slots : turns[u].pc = "Transmitting"}}
    \cup ({last.context_id} \ {NONE})

\* C26: a turn without conversation id, with one the tracker does not hold, or
\* with one whose entry has expired starts a fresh session: its request
\* carries a newly generated contextId, different from every context id sent
\* or stored before (that of the expired entry included), and taskId null.
C26_FreshSession ==
    [][\A t \in Slots :
        Begins(t) =>
            LET c == turns'[t].conversation_id
            IN  (\/ c = NONE
                 \/ c \notin DOMAIN entries
                 \/ entries[c].expires_at <= now) =>
                    /\ SentContextId(turns'[t]) \notin KnownContextIds
                    /\ SentContextId(turns'[t]) = uuid4(nextUuid')
                    /\ nextUuid' = nextUuid + 1
                    /\ SentTaskId(turns'[t]) = NONE
                    /\ ~turns'[t].tracked]_vars

C26_Witness ==
    \E t \in Slots :
        /\ turns[t].pc = "Transmitting"
        /\ turns[t].conversation_id \in DOMAIN written
        /\ written[turns[t].conversation_id].continuing
        /\ now >= written[turns[t].conversation_id].at + ttl
        /\ SentTaskId(turns[t]) = NONE
        /\ SentContextId(turns[t]) # written[turns[t].conversation_id].context_id
        /\ SentContextId(turns[t]) # turns[t].conversation_id
        /\ ~turns[t].tracked

\* C27: for a Task reply the task id used for the tracker update is the id of
\* the result when it names one and else the task id the turn sent, the
\* context id is the contextId of the result when it names one and else the
\* context id the turn sent, and a status without state counts as completed;
\* for a Message reply the context id is found the same way and no task id is
\* stored. A null or empty id or contextId names none.
C27_ReplyIdsWithFallback ==
    (last.outcome = "Done" /\ last.raw # Absent) =>
        LET r == TheOne(last.raw)
            entry == entries[last.ha_conversation_id]
            used_task == IF r.id \notin {NONE, ""} THEN r.id ELSE last.task_id
            used_context == IF r.contextId \notin {NONE, ""} THEN r.contextId
                            ELSE last.context_id
            state == IF r.state = NONE THEN "completed" ELSE r.state
        IN  /\ last.ha_conversation_id \in DOMAIN entries
            /\ entry.context_id = used_context
            /\ last.reply = "task" =>
                   /\ state \in {"working", "input-required"} =>
                          entry.task_id = used_task
                   /\ state \notin {"working", "input-required"} =>
                          entry.task_id = NONE
                   /\ TheOne(last.result).continue_conversation
                          = (state \in {"working", "input-required"})
            /\ last.reply = "message" => entry.task_id = NONE

C27_Witness ==
    /\ last.outcome = "Done"
    /\ last.reply = "task"
    /\ TheOne(last.raw).id = NONE
    /\ TheOne(last.raw).contextId = NONE
    /\ last.task_id = "T1"
    /\ entries[last.ha_conversation_id].task_id = "T1"
    /\ entries[last.ha_conversation_id].context_id = last.context_id

\* C28: the text decoded from a Task or Message reply is the concatenation, in
\* list order, of the text of every part of kind text (the parts of
\* status.message for a Task, of the result for a Message); a part of another
\* kind adds nothing, and every text part adds its text, not only the first.
C28_TextIsConcatenation ==
    (last.outcome = "Done" /\ last.raw # Absent) =>
        LET parts == TheOne(last.raw).parts
            texts == SelectSeq(parts, LAMBDA p : p.kind = "text")
            joined == IF texts = <<>> THEN ""
                      ELSE IF Len(texts) = 1 THEN texts[1].text
                      ELSE IF Len(texts) = 2 THEN texts[1].text \o texts[2].text
                      ELSE texts[1].text \o texts[2].text \o texts[3].text
        IN  /\ Len(parts) <= 3
            /\ joined # "" => TheOne(last.result).speech = joined

C28_Witness ==
    /\ last.outcome = "Done"
    /\ last.reply = "message"
    /\ Len(TheOne(last.raw).parts) = 3
    /\ TheOne(last.raw).parts[1].kind = "text"
    /\ TheOne(last.raw).parts[2].kind # "text"
    /\ TheOne(last.raw).parts[3].kind = "text"
    /\ TheOne(last.result).speech
           = TheOne(last.raw).parts[1].text \o TheOne(last.raw).parts[3].text

\* C29: when the text accumulated from a well-formed Task or Message reply is
\* empty, the result speaks the fixed fallback text, never the empty string,
\* and nothing else changes: the turn ends in Done, the tracker is updated and
\* continue_conversation follows the state of the reply as usual.
C29_EmptyTextFallsBack ==
    (/\ last.raw # Absent
     /\ last.reply = "task" => TheOne(last.raw).status_is_dict
     /\ last.chat = "none"
     /\ \A i \in 1 .. Len(TheOne(last.raw).parts) :
            TheOne(last.raw).parts[i].kind = "text"
                => TheOne(last.raw).parts[i].text = "") =>
        LET r == TheOne(last.raw)
            continuing == last.reply = "task" /\ r.state \in {"working", "input-required"}
        IN  /\ last.outcome = "Done"
            /\ TheOne(last.result).speech = NoResponseSpeech
            /\ TheOne(last.result).speech # ""
            /\ TheOne(last.result).continue_conversation = continuing
            /\ last.did_store
            /\ last.ha_conversation_id \in DOMAIN entries
            /\ entries[last.ha_conversation_id].expires_at
                   = written[last.ha_conversation_id].at + ttl
            /\ entries[last.ha_conversation_id].context_id
                   = (IF r.contextId \notin {NONE, ""} THEN r.contextId
                      ELSE last.context_id)
            /\ entries[last.ha_conversation_id].task_id
                   = (IF ~continuing THEN NONE
                      ELSE IF r.id \notin {NONE, ""} THEN r.id ELSE last.task_id)

C29_Witness ==
    /\ last.outcome = "Done"
    /\ last.reply = "task"
    /\ last.state = "input-required"
    /\ TheOne(last.raw).parts = <<>>
    /\ TheOne(last.result).speech = NoResponseSpeech
    /\ TheOne(last.result).continue_conversation
    /\ entries[last.ha_conversation_id].task_id = "T1"

\* C30: a turn that ends in Done returns the conversation id it was given when
\* it was given one (also when the session tracked under it had expired) and
\* else one it generated, and the entry it wrote is keyed by the conversation
\* id it returns: get of that id right after the turn yields what it stored.
C30_ReturnedHandleKeysEntry ==
    [][\A t \in Slots :
        (Returns(t) /\ last'.outcome = "Done") =>
            LET c == turns[t].conversation_id
                returned == TheOne(last'.result).conversation_id
            IN  /\ c \notin {NONE, ""} => returned = c
                /\ c \in {NONE, ""} =>
                       /\ returned = turns[t].context_id
                       /\ returned \in {uuid4(n) : n \in 1 .. nextUuid}
                       /\ ~turns[t].tracked
                /\ returned \in DOMAIN entries'
                /\ entries'[returned] =
                       TrackedConversation(written'[returned].context_id,
                                           written'[returned].task_id, now + ttl)
                /\ written'[returned].at = now
                /\ get(entries', now', returned).ret = Some(entries'[returned])]_vars

C30_Witness ==
    /\ last.outcome = "Done"
    /\ last.ha_conversation_id \in PlatformHandles
    /\ last.before = Absent
    /\ nextUuid = MaxUuid
    /\ last.context_id = uuid4(nextUuid)
    /\ TheOne(last.result).conversation_id = last.ha_conversation_id
    /\ get(entries, now, last.ha_conversation_id).ret
           = Some(entries[last.ha_conversation_id])

\* C31: in every reachable state every entry of the tracker has a non-empty
\* context id and every request in flight carries a non-empty contextId,
\* whatever contextId (missing, null or empty) the replies named.
C31_ContextIdNeverEmpty ==
    /\ \A k \in DOMAIN entries : entries[k].context_id \notin {NONE, ""}
    /\ \A t \in Slots :
           turns[t].pc = "Transmitting" =>
               /\ turns[t].request # Absent
               /\ SentContextId(turns[t]) \notin {NONE, ""}

C31_Witness ==
    /\ last.outcome = "Done"
    /\ last.raw # Absent
    /\ TheOne(last.raw).contextId = ""
    /\ last.ha_conversation_id \in DOMAIN entries
    /\ entries[last.ha_conversation_id].context_id = last.context_id
    /\ last.context_id \notin {NONE, ""}

\* C32: every turn terminates: when the transport answers, fails or times out,
\* a turn that was started ends, and it ends in Done or in ErrorTerminal, or
\* cancelled by the host at the network await.
C32_EveryTurnTerminates ==
    /\ \A t \in Slots : (turns[t].pc = "Transmitting") ~> (turns[t].pc = "Idle")
    /\ [][\A t \in Slots :
            (turns[t].pc = "Idle" /\ last' # last /\ last' # NoLast) =>
                last'.outcome \in {"Done", "ErrorTerminal", "Cancelled"}]_vars
    /\ [][\A t \in Slots :
            Returns(t) => last'.outcome \in {"Done", "ErrorTerminal", "Cancelled"}]_vars

\* C33: overlapping turns on distinct conversation ids, turns without
\* conversation id included, do not interfere. The request of a turn is made
\* from the live entry of its own conversation id alone (a new uuid, used by no
\* turn in flight, when there is none) and starting it leaves the live entries
\* as they are; the end of a turn changes the entry of its own conversation id
\* alone, to what its own request and reply make it, and leaves the turns in
\* flight on other conversation ids as they are.
C33_DistinctHandlesDoNotInterfere ==
    [][\A t \in Slots :
        /\ Begins(t) =>
               LET c == turns'[t].conversation_id
                   live == c \in DOMAIN entries /\ entries[c].expires_at > now
                   others == {u \in Slots \ {t} : turns[u].pc = "Transmitting"}
               IN  /\ live => /\ SentContextId(turns'[t]) = entries[c].context_id
                               /\ SentTaskId(turns'[t]) = entries[c].task_id
                   /\ ~live => /\ SentContextId(turns'[t]) = uuid4(nextUuid + 1)
                                /\ SentTaskId(turns'[t]) = NONE
                                /\ \A u \in others :
                                       /\ turns[u].context_id # SentContextId(turns'[t])
                                       /\ turns[u].ha_conversation_id
                                              # SentContextId(turns'[t])
                   /\ c = NONE => \A u \in others :
                          turns[u].ha_conversation_id # turns'[t].ha_conversation_id
                   /\ \A k \in DOMAIN entries :
                          entries[k].expires_at > now =>
                              k \in DOMAIN entries' /\ entries'[k] = entries[k]
                   /\ \A u \in others : turns'[u] = turns[u]
        /\ Returns(t) =>
               LET h == turns[t].ha_conversation_id
               IN  /\ DOMAIN entries' \subseteq DOMAIN entries \cup {h}
                   /\ \A k \in DOMAIN entries \ {h} :
                          k \in DOMAIN entries' /\ entries'[k] = entries[k]
                   /\ last'.did_store =>
                          /\ h \in DOMAIN entries'
                          /\ entries'[h] =
                                 TrackedConversation(
                                     Writing(turns[t], [result |-> last'.raw], now).context_id,
                                     Writing(turns[t], [result |-> last'.raw], now).task_id,
                                     now + ttl)
                   /\ ~last'.did_store => entries' = entries
                   /\ \A u \in Slots \ {t} :
                          turns[u].ha_conversation_id # h => turns'[u] = turns[u]]_vars

C33_Witness ==
    /\ last.outcome = "Done"
    /\ last.did_store
    /\ last.context_id = last.ha_conversation_id
    /\ \E u \in Slots :
           /\ turns[u].pc = "Transmitting"
           /\ turns[u].conversation_id = NONE
           /\ turns[u].ha_conversation_id # last.ha_conversation_id
           /\ turns[u].ha_conversation_id \notin DOMAIN entries
           /\ last.ha_conversation_id \in DOMAIN entries

\* C34: a turn stores at most once, and it stores exactly when its reply has
\* status 200, has no "error" member and is decoded without an exception; the
\* store is made when the result is returned; no turn removes an entry: the
\* start of a turn only prunes, a cancelled turn leaves the tracker alone.
C34_OneStoreIffDecoded ==
    [][\A t \in Slots :
        /\ Returns(t) =>
               LET h == turns[t].ha_conversation_id
                   decoded == /\ last'.reply \in {"task", "message", "none"}
                              /\ last'.reply = "task" =>
                                     TheOne(last'.raw).status_is_dict
                   rest == Restrict(entries', DOMAIN entries' \ {h})
               IN  /\ last'.outcome # "Cancelled" => (last'.did_store <=> decoded)
                   /\ last'.outcome = "Cancelled" => ~last'.did_store
                   /\ last'.did_store =>
                          /\ h \in DOMAIN entries'
                          /\ entries'[h].expires_at = now + ttl
                          /\ rest = Restrict(entries, DOMAIN entries \ {h})
                          /\ written'[h].at = now
                   /\ ~last'.did_store => entries' = entries /\ written' = written
                   /\ last'.outcome = "Done" => last'.did_store
        /\ Begins(t) =>
               /\ DOMAIN entries' \subseteq DOMAIN entries
               /\ \A k \in DOMAIN entries' : entries'[k] = entries[k]
               /\ \A k \in DOMAIN entries \ DOMAIN entries' :
                      entries[k].expires_at <= now
               /\ written' = written]_vars

C34_Witness ==
    /\ last.outcome = "ErrorTerminal"
    /\ last.reply = "task"
    /\ last.chat = "once"
    /\ last.did_store
    /\ last.ha_conversation_id \in DOMAIN entries
    /\ entries[last.ha_conversation_id].expires_at
           = written[last.ha_conversation_id].at + ttl
    /\ last.before = Absent

\* C35: a reply with status 200, without "error" member and without result
\* object (no result, or a result that is not an object) is a successful
\* turn: it ends in Done with the fixed fallback text and
\* continue_conversation False, and stores under the conversation id of the
\* turn the context id the turn sent, without task id.
C35_NoResultIsDone ==
    [][\A t \in Slots :
        (Returns(t) /\ last'.outcome # "Cancelled" /\ last'.reply = "none") =>
            LET h == turns[t].ha_conversation_id
            IN  /\ last'.outcome = "Done"
                /\ last'.result = Some(ConversationResult(NoResponseSpeech, h, FALSE))
                /\ last'.did_store
                /\ h \in DOMAIN entries'
                /\ entries'[h] = TrackedConversation(SentContextId(turns[t]), NONE, now + ttl)]_vars

C35_Witness ==
    /\ last.outcome = "Done"
    /\ last.reply = "none"
    /\ last.task_id # NONE
    /\ TheOne(last.result).speech = NoResponseSpeech
    /\ ~TheOne(last.result).continue_conversation
    /\ entries[last.ha_conversation_id].context_id = last.context_id
    /\ entries[last.ha_conversation_id].task_id = NONE

\* C36: the conversation id of an ErrorTerminal result depends on the fault. A
\* status other than 200 and an error reply return the conversation id of the
\* turn: the one it was given, or the one it generated, for which the tracker
\* has no entry. A configuration fault and a caught exception return none.
C36_ErrorHandleByFault ==
    [][\A t \in Slots :
        /\ (Returns(t) /\ last'.outcome = "ErrorTerminal") =>
               LET c == turns[t].conversation_id
                   returned == TheOne(last'.result).conversation_id
                   refused == \/ last'.reply = "http"
                              \/ /\ last'.reply = "error"
                                 /\ TheOne(last'.error).is_dict
               IN  IF refused /\ last'.chat = "none"
                   THEN /\ c \notin {NONE, ""} => returned = c
                        /\ c \in {NONE, ""} =>
                               /\ returned = SentContextId(turns[t])
                               /\ returned \in {uuid4(n) : n \in 1 .. nextUuid}
                               /\ returned \notin DOMAIN entries'
                   ELSE returned = NONE
        /\ (turns[t].pc = "Idle" /\ last' # last /\ last'.config # "ok") =>
               /\ last'.outcome = "ErrorTerminal"
               /\ TheOne(last'.result).conversation_id = NONE]_vars

C36_Witness ==
    /\ last.outcome = "ErrorTerminal"
    /\ last.reply = "http"
    /\ TheOne(last.result).conversation_id = last.context_id
    /\ last.context_id = uuid4(nextUuid)
    /\ last.context_id \notin DOMAIN entries
    /\ DOMAIN entries # {}

\* ================================================= claims on the tracker

StoredBefore(k) == stored[k].at # -1
Live(k, t) == StoredBefore(k) /\ t < stored[k].at + ttl

\* C6: after store(h, c, t), a get(h) before ttl has elapsed since that store
\* (no store or remove of h in between) returns a session with exactly
\* context_id c and task_id t; a get(h) once ttl has elapsed returns None;
\* get of a key never stored returns None.
C6_GetWithinTtl ==
    lastOp.op = "get" =>
        IF Live(lastOp.key, lastOp.at)
        THEN /\ lastOp.ret # Absent
             /\ TheOne(lastOp.ret).context_id = stored[lastOp.key].context_id
             /\ TheOne(lastOp.ret).task_id = stored[lastOp.key].task_id
        ELSE lastOp.ret = Absent

C6_Witness ==
    /\ lastOp.op = "get"
    /\ lastOp.ret = Absent
    /\ StoredBefore(lastOp.key)
    /\ lastOp.at = stored[lastOp.key].at + ttl
    /\ ttl > 0

\* C7: store(h, c2, t2) fully replaces any entry of h: the entry after the
\* store, and the result of a following get(h) within ttl, carry c2 and t2
\* and nothing of the old entry; a store without task id leaves task_id None
\* even when the old entry had one.
C7_StoreReplaces ==
    [][/\ lastOp'.op = "store" =>
            /\ lastOp'.key \in DOMAIN entries'
            /\ entries'[lastOp'.key].context_id = lastOp'.context_id
            /\ entries'[lastOp'.key].task_id = lastOp'.task_id
       /\ (/\ lastOp.op = "store"
           /\ lastOp'.op = "get"
           /\ lastOp'.key = lastOp.key
           /\ lastOp'.at < lastOp.at + ttl) =>
            /\ lastOp'.ret # Absent
            /\ TheOne(lastOp'.ret).context_id = lastOp.context_id
            /\ TheOne(lastOp'.ret).task_id = lastOp.task_id]_vars

C7_Witness ==
    /\ lastOp.op = "store"
    /\ lastOp.before # Absent
    /\ TheOne(lastOp.before).task_id # NONE
    /\ TheOne(lastOp.before).context_id # lastOp.context_id
    /\ TheOne(lastOp.before).expires_at > lastOp.at
    /\ lastOp.task_id = NONE

\* C8: every store sets expires_at to the time of that store plus ttl, so a
\* get(h) at any time less than ttl after the latest store of h returns the
\* entry, whenever the first store of h happened.
C8_StoreResetsTtl ==
    /\ lastOp.op = "store" =>
           /\ lastOp.key \in DOMAIN entries
           /\ entries[lastOp.key].expires_at = lastOp.at + ttl
    /\ (lastOp.op = "get" /\ Live(lastOp.key, lastOp.at)) =>
           /\ lastOp.ret # Absent
           /\ TheOne(lastOp.ret).expires_at = stored[lastOp.key].at + ttl

C8_Witness ==
    /\ lastOp.op = "get"
    /\ lastOp.ret # Absent
    /\ ttl > 0
    /\ lastOp.at >= stored[lastOp.key].first + ttl

NoExpiredEntry == \A k \in DOMAIN entries : entries[k].expires_at > now

\* C9 as claimed, for a tracker with a positive ttl: immediately after any get
\* or any store the storage holds no entry whose expires_at has passed.
C9_PrunedAfterGetOrStore ==
    (ttl > 0 /\ lastOp.op \in {"get", "store"} /\ lastOp.at = now) => NoExpiredEntry

\* C9 as amended: immediately after any get the storage holds no entry whose
\* expires_at has passed (store does not prune).
C9_PrunedAfterGet ==
    (lastOp.op = "get" /\ lastOp.at = now) => NoExpiredEntry

C9_Witness ==
    /\ lastOp.op = "get"
    /\ lastOp.at = now
    /\ ttl > 0
    /\ \E k \in TrackerKeys : StoredBefore(k) /\ ~Live(k, now)

\* C10: get(h) removes the expired entries of every key and no unexpired
\* entry: right after a get, the keys in storage are exactly the keys whose
\* latest store is less than ttl old, each with what that store wrote.
C10_GetPrunesExactlyExpired ==
    (lastOp.op = "get" /\ lastOp.at = now) =>
        \A k \in TrackerKeys :
            /\ (k \in DOMAIN entries) <=> Live(k, now)
            /\ k \in DOMAIN entries =>
                   /\ entries[k].context_id = stored[k].context_id
                   /\ entries[k].task_id = stored[k].task_id

C10_Witness ==
    /\ lastOp.op = "get"
    /\ lastOp.at = now
    /\ lastOp.ret = Absent
    /\ \E b \in TrackerKeys :
           /\ b # lastOp.key
           /\ StoredBefore(lastOp.key)
           /\ stored[b].at > stored[lastOp.key].at
           /\ stored[b].at >= stored[lastOp.key].at + ttl
           /\ b \in DOMAIN entries

\* C11: remove(h) deletes the entry of h if there is one, so that a get(h) that
\* follows returns None; it raises no error when h has no entry; and it leaves
\* the entry of every other key as it was.
C11_RemoveDeletesOnlyKey ==
    [][/\ lastOp'.op = "remove" =>
            /\ ~lastOp'.raised
            /\ lastOp'.key \notin DOMAIN entries'
            /\ \A k \in TrackerKeys \ {lastOp'.key} :
                   /\ (k \in DOMAIN entries') <=> (k \in DOMAIN entries)
                   /\ k \in DOMAIN entries => entries'[k] = entries[k]
       /\ (/\ lastOp.op = "remove"
           /\ lastOp'.op = "get"
           /\ lastOp'.key = lastOp.key) => lastOp'.ret = Absent]_vars

C11_Witness ==
    /\ lastOp.op = "remove"
    /\ lastOp.before # Absent
    /\ TheOne(lastOp.before).expires_at > now
    /\ \E k \in TrackerKeys \ {lastOp.key} : k \in DOMAIN entries

\* C37: expiry includes the boundary: the entry stored at time s is returned
\* by get at every time before s + ttl and by no get at s + ttl or later; with
\* ttl = 0 a get at the clock value of the store returns None.
C37_ExpiryInclusive ==
    [][(/\ lastOp.op = "store"
        /\ lastOp'.op = "get"
        /\ lastOp'.key = lastOp.key) =>
            /\ lastOp'.at < lastOp.at + ttl =>
                   /\ lastOp'.ret # Absent
                   /\ TheOne(lastOp'.ret).expires_at = lastOp.at + ttl
            /\ lastOp'.at >= lastOp.at + ttl =>
                   /\ lastOp'.ret = Absent
                   /\ lastOp.key \notin DOMAIN entries'
            /\ ttl = 0 => lastOp'.ret = Absent]_vars

C37_Witness ==
    /\ lastOp.op = "get"
    /\ ttl = 0
    /\ stored[lastOp.key].at = lastOp.at
    /\ lastOp.ret = Absent
    /\ lastOp.key \notin DOMAIN entries

\* C38: get never extends the life of an entry and is idempotent: a get leaves
\* every unexpired entry as it was; a second get of the same key at the same
\* clock value returns what the first returned and changes nothing; and after
\* a get of a key returned None the key has no entry, gets one only by a store
\* of that key, and every get of it until then returns None.
C38_GetIdempotent ==
    [][/\ lastOp'.op = "get" =>
            /\ \A k \in DOMAIN entries :
                   entries[k].expires_at > now =>
                       k \in DOMAIN entries' /\ entries'[k] = entries[k]
            /\ DOMAIN entries' \subseteq DOMAIN entries
            /\ lastOp'.ret = Absent <=> lastOp'.key \notin DOMAIN entries'
            /\ lastOp'.key \notin DOMAIN entries => lastOp'.ret = Absent
       /\ (/\ lastOp.op = "get"
           /\ lastOp'.op = "get"
           /\ lastOp'.at = lastOp.at) =>
               /\ entries' = entries
               /\ lastOp'.key = lastOp.key => lastOp'.ret = lastOp.ret
       /\ (/\ lastOp.op = "get"
           /\ lastOp.ret = Absent
           /\ lastOp'.op = "get"
           /\ lastOp'.key = lastOp.key) => lastOp'.ret = Absent
       /\ \A k \in TrackerKeys :
              (k \notin DOMAIN entries /\ k \in DOMAIN entries') =>
                  lastOp'.op = "store" /\ lastOp'.key = k]_vars

C38_Witness ==
    /\ lastOp.op = "get"
    /\ lastOp.ret # Absent
    /\ lastOp.at > stored[lastOp.key].at
    /\ TheOne(lastOp.ret).expires_at = stored[lastOp.key].at + ttl
    /\ \E k \in TrackerKeys \ {lastOp.key} : StoredBefore(k) /\ k \notin DOMAIN entries

====
